---- MODULE Spec2Model ----
(***************************************************************************)
(* The JSON explorer: the stats fold (page.tsx buildStats), the tree       *)
(* renderer (json-tree.tsx JsonTree / JsonNode) and the page component     *)
(* (page.tsx Home) that loads documents and shows both.                    *)
(***************************************************************************)
EXTENDS Integers, Sequences, FiniteSets, TLC

\* The five state hooks of Home hold the value of the last setter call.  A
\* setter does not run Home again by itself: the values the page displays,
\* and the ones its event handlers have closed over, are those of the last
\* render.
VARIABLES
    jsonText,     \* Home: useState(sampleText), a sequence of JSON tokens
    data,         \* Home: useState(sampleData), a JsonValue
    activeLabel,  \* Home: useState("Sample dataset")
    error,        \* Home: useState<string | null>(null)
    updatedAt,    \* Home: useState(() => new Date())
    rendered,     \* Home: the values of the five hooks in the last render
    stats,        \* Home: useMemo(() => buildStats(data), [data]), last render
    tree,         \* Home: what <JsonTree value={data} rootLabel="fromj.json"/> rendered
    readers       \* FileReaders started by handleFileUpload and not yet completed

vars ==
    <<jsonText, data, activeLabel, error, updatedAt, rendered, stats, tree, readers>>

(***************************************************************************)
(* JsonValue (json-tree.tsx:5-11).  A primitive carries its literal; an    *)
(* array its items in index order; an object its own properties as         *)
(* <<key, value>> pairs in the order the properties were created.          *)
(***************************************************************************)
JNull == [type |-> "null"]
JBool(b) == [type |-> "boolean", lit |-> b]
JNum(n) == [type |-> "number", lit |-> n]
JStr(s) == [type |-> "string", lit |-> s]
JArr(items) == [type |-> "array", items |-> items]
JObj(props) == [type |-> "object", props |-> props]

\* The language's typeof: null, arrays and plain objects are all "object".
TypeOf(value) ==
    IF value.type \in {"null", "array", "object"} THEN "object" ELSE value.type

\* Array.isArray
ArrayIsArray(value) == value.type = "array"

\* The value of a decimal digit, -1 for any other character.
DigitValue(c) ==
    CASE c = "0" -> 0 [] c = "1" -> 1 [] c = "2" -> 2 [] c = "3" -> 3
      [] c = "4" -> 4 [] c = "5" -> 5 [] c = "6" -> 6 [] c = "7" -> 7
      [] c = "8" -> 8 [] c = "9" -> 9 [] OTHER -> -1

RECURSIVE DecimalValue(_, _)

\* The number a string of decimal digits writes, read left to right after
\* the value so far; -1 when some character is not a digit.
DecimalValue(digits, sofar) ==
    IF digits = "" THEN sofar
    ELSE IF DigitValue(Head(digits)) < 0 THEN -1
    ELSE DecimalValue(Tail(digits), 10 * sofar + DigitValue(Head(digits)))

\* A canonical array index is the decimal form, without leading zeros, of an
\* integer from 0 to 2^32 - 2.  ArrayIndex(key) is that integer as the pair
\* <<index \div 100000, index % 100000>>, and <<-1, -1>> when the key is no
\* array index: keys such as "a", "01", "-1" or "4294967295" are ordinary
\* strings.
ArrayIndex(key) ==
    IF key = "" \/ Len(key) > 10 THEN <<-1, -1>>
    ELSE IF DigitValue(Head(key)) < 0 THEN <<-1, -1>>
    ELSE IF Head(key) = "0" /\ Len(key) > 1 THEN <<-1, -1>>
    ELSE LET split == IF Len(key) > 5 THEN Len(key) - 5 ELSE 0
             high == DecimalValue(SubSeq(key, 1, split), 0)
             low == DecimalValue(SubSeq(key, split + 1, Len(key)), 0)
         IN  IF high < 0 \/ low < 0 THEN <<-1, -1>>
             ELSE IF high > 42949 \/ (high = 42949 /\ low > 67294) THEN <<-1, -1>>
             ELSE <<high, low>>

IsArrayIndex(key) == ArrayIndex(key)[1] >= 0

\* The numeric order of two array indices.
IndexBefore(i, j) == i[1] < j[1] \/ (i[1] = j[1] /\ i[2] < j[2])

\* The order in which Object.entries / Object.values enumerate the own
\* properties of a plain object: array-index keys in ascending numeric
\* order first, then the other keys in creation order.
OwnPropertyOrder(props) ==
    LET indexed == SelectSeq(props, LAMBDA p : IsArrayIndex(p[1]))
        named == SelectSeq(props, LAMBDA p : ~IsArrayIndex(p[1]))
    IN  SortSeq(indexed, LAMBDA p, q : IndexBefore(ArrayIndex(p[1]), ArrayIndex(q[1])))
           \o named

ObjectEntries(value) == OwnPropertyOrder(value.props)

ObjectValues(value) ==
    LET entries == OwnPropertyOrder(value.props)
    IN  [i \in 1..Len(entries) |-> entries[i][2]]

(***************************************************************************)
(* buildStats (page.tsx:97-159)                                            *)
(***************************************************************************)
\* The record returned for null (98-106) and for any other primitive (152-158).
PrimitiveStats(depth) ==
    [nodeCount |-> 1, objectCount |-> 0, arrayCount |-> 0, primitiveCount |-> 1,
     maxDepth |-> depth]

\* The initial accumulator of the array reduce (120-126).
ArrayInitial(depth) ==
    [nodeCount |-> 1, objectCount |-> 0, arrayCount |-> 1, primitiveCount |-> 0,
     maxDepth |-> depth]

\* Mutant of ObjectInitial: the array accumulator pasted for objects.
ObjectInitialCountsArray(depth) ==
    [nodeCount |-> 1, objectCount |-> 0, arrayCount |-> 1, primitiveCount |-> 0,
     maxDepth |-> depth]

\* The initial accumulator of the object reduce (142-148).
ObjectInitial(depth) ==
    [nodeCount |-> 1, objectCount |-> 1, arrayCount |-> 0, primitiveCount |-> 0,
     maxDepth |-> depth]

\* Mutant of MathMax: the later operand always wins.
MathMaxTakesLast(a, b) == b

MathMax(a, b) == IF a >= b THEN a ELSE b

\* Mutant of MergeStats: the entry's primitives are not added.
MergeStatsDropsPrimitives(acc, s) ==
    [nodeCount |-> acc.nodeCount + s.nodeCount,
     objectCount |-> acc.objectCount + s.objectCount,
     arrayCount |-> acc.arrayCount + s.arrayCount,
     primitiveCount |-> acc.primitiveCount,
     maxDepth |-> IF acc.maxDepth >= s.maxDepth THEN acc.maxDepth ELSE s.maxDepth]

\* The reducer callback's result (112-118, 134-140).
MergeStats(acc, s) ==
    [nodeCount |-> acc.nodeCount + s.nodeCount,
     objectCount |-> acc.objectCount + s.objectCount,
     arrayCount |-> acc.arrayCount + s.arrayCount,
     primitiveCount |-> acc.primitiveCount + s.primitiveCount,
     maxDepth |-> MathMax(acc.maxDepth, s.maxDepth)]

RECURSIVE buildStats(_, _), ReduceStats(_, _, _, _)

\* entries.reduce(callback, acc) from entry i on, left to right.
ReduceStats(entries, i, acc, depth) ==
    IF i > Len(entries) THEN acc
    ELSE ReduceStats(entries, i + 1,
                     MergeStats(acc, buildStats(entries[i], depth + 1)), depth)

buildStats(value, depth) ==
    IF value = JNull THEN PrimitiveStats(depth)
    ELSE IF ArrayIsArray(value)
         THEN ReduceStats(value.items, 1, ArrayInitial(depth), depth)
    ELSE IF TypeOf(value) = "object"
         THEN ReduceStats(ObjectValues(value), 1, ObjectInitial(depth), depth)
    ELSE PrimitiveStats(depth)

(***************************************************************************)
(* JsonTree / JsonNode / JsonPrimitive (json-tree.tsx)                     *)
(***************************************************************************)
isObject(value) ==
    TypeOf(value) = "object" /\ value # JNull /\ ~ArrayIsArray(value)

\* Mutant of isArray: typeof never answers "array".
isArrayByTypeof(value) == TypeOf(value) = "array"

isArray(value) == ArrayIsArray(value)

\* Mutant of DetailsOpen: depth 2 is open too.
DetailsOpenThroughTwo(depth) == depth <= 2

\* <details open={depth < 2}>
DetailsOpen(depth) == depth < 2

\* Mutant of IsLastIndex: compared with the length itself.
IsLastIndexOffByOne(index, length) == index = length

\* isLast={index === entries.length - 1}, for the zero-based index.
IsLastIndex(index, length) == index = length - 1

\* name={`[${index}]`}
IndexLabel(index) == "[" \o ToString(index) \o "]"

\* The branch JsonPrimitive's switch (typeof value) takes and the text it shows.
JsonPrimitive(value) ==
    CASE TypeOf(value) = "string" -> <<"string", "\"" \o value.lit \o "\"">>
      [] TypeOf(value) = "number" -> <<"number", value.lit>>
      [] TypeOf(value) = "boolean" -> <<"boolean", value.lit>>
      [] TypeOf(value) = "object" -> <<"null", "null">>
      [] OTHER -> <<"unsupported", "unsupported">>

RECURSIVE JsonNode(_, _, _, _)

\* The element JsonNode returns: its kind, the props it was called with,
\* the open attribute of its <details>, and the child elements in order.
JsonNode(name, value, depth, isLast) ==
    IF isObject(value)
    THEN LET entries == ObjectEntries(value)
         IN  [kind |-> "Object", name |-> name, depth |-> depth, isLast |-> isLast,
              open |-> DetailsOpen(depth), size |-> Len(entries),
              children |->
                  [i \in 1..Len(entries) |->
                      JsonNode(entries[i][1], entries[i][2], depth + 1,
                               IsLastIndex(i - 1, Len(entries)))]]
    ELSE IF isArray(value)
    THEN [kind |-> "Array", name |-> name, depth |-> depth, isLast |-> isLast,
          open |-> DetailsOpen(depth), size |-> Len(value.items),
          children |->
              [i \in 1..Len(value.items) |->
                  JsonNode(IndexLabel(i - 1), value.items[i], depth + 1,
                           IsLastIndex(i - 1, Len(value.items)))]]
    ELSE [kind |-> "Primitive", name |-> name, depth |-> depth, isLast |-> isLast,
          shown |-> JsonPrimitive(value), children |-> <<>>]

JsonTree(value, rootLabel) == JsonNode(rootLabel, value, 0, TRUE)

(***************************************************************************)
(* JSON text.  A text is the sequence of its tokens, each <<class, text>>: *)
(* punctuation, a string, a number, one of the literals true false null,   *)
(* or a bare word that starts no JSON value, such as undefined.            *)
(***************************************************************************)
Punct(c) == <<"punct", c>>
StrTok(s) == <<"string", s>>
NumTok(n) == <<"number", n>>
LitTok(w) == <<"literal", w>>
BadTok(w) == <<"bad", w>>

\* CreateDataProperty: a new key is appended, an existing key keeps its place.
DefineProperty(props, key, value) ==
    IF \E i \in 1..Len(props) : props[i][1] = key
    THEN [i \in 1..Len(props) |->
             IF props[i][1] = key THEN <<key, value>> ELSE props[i]]
    ELSE Append(props, <<key, value>>)

ParseOk(value, pos) == [ok |-> TRUE, value |-> value, pos |-> pos]
\* The SyntaxError JSON.parse throws.  The wording of its message belongs to
\* the engine and differs between engine versions, so the message is kept
\* as what it reports, not as one engine's text: whether the text ended
\* where more was required or a token stood where it is not allowed, and
\* the place of that token in the text.
ParseFail(reason, pos) == [ok |-> FALSE, message |-> [reason |-> reason, at |-> pos]]
UnexpectedEnd(text) == ParseFail("end of input", Len(text) + 1)
UnexpectedToken(pos) == ParseFail("unexpected token", pos)

RECURSIVE ParseValue(_, _), ParseItems(_, _, _), ParseMembers(_, _, _)

\* One JSON value starting at token pos.
ParseValue(text, pos) ==
    IF pos > Len(text) THEN UnexpectedEnd(text)
    ELSE LET tok == text[pos]
         IN  CASE tok[1] = "literal" ->
                    ParseOk(IF tok[2] = "null" THEN JNull ELSE JBool(tok[2]), pos + 1)
               [] tok[1] = "number" -> ParseOk(JNum(tok[2]), pos + 1)
               [] tok[1] = "string" -> ParseOk(JStr(tok[2]), pos + 1)
               [] tok = Punct("[") ->
                    IF pos + 1 <= Len(text) /\ text[pos + 1] = Punct("]")
                    THEN ParseOk(JArr(<<>>), pos + 2)
                    ELSE ParseItems(text, pos + 1, <<>>)
               [] tok = Punct("{") ->
                    IF pos + 1 <= Len(text) /\ text[pos + 1] = Punct("}")
                    THEN ParseOk(JObj(<<>>), pos + 2)
                    ELSE ParseMembers(text, pos + 1, <<>>)
               [] OTHER -> UnexpectedToken(pos)

\* The rest of an array: a value, then "," and more, or "]".
ParseItems(text, pos, items) ==
    LET r == ParseValue(text, pos)
    IN  IF ~r.ok THEN r
        ELSE IF r.pos > Len(text) THEN UnexpectedEnd(text)
        ELSE IF text[r.pos] = Punct(",")
             THEN ParseItems(text, r.pos + 1, Append(items, r.value))
        ELSE IF text[r.pos] = Punct("]")
             THEN ParseOk(JArr(Append(items, r.value)), r.pos + 1)
        ELSE UnexpectedToken(r.pos)

\* The rest of an object: "key" : value, then "," and more, or "}".
ParseMembers(text, pos, props) ==
    IF pos > Len(text) THEN UnexpectedEnd(text)
    ELSE IF text[pos][1] # "string" THEN UnexpectedToken(pos)
    ELSE IF pos + 1 > Len(text) THEN UnexpectedEnd(text)
    ELSE IF text[pos + 1] # Punct(":") THEN UnexpectedToken(pos + 1)
    ELSE LET r == ParseValue(text, pos + 2)
             defined == DefineProperty(props, text[pos][2], r.value)
         IN  IF ~r.ok THEN r
             ELSE IF r.pos > Len(text) THEN UnexpectedEnd(text)
             ELSE IF text[r.pos] = Punct(",")
                  THEN ParseMembers(text, r.pos + 1, defined)
             ELSE IF text[r.pos] = Punct("}")
                  THEN ParseOk(JObj(defined), r.pos + 1)
             ELSE UnexpectedToken(r.pos)

\* JSON.parse: the whole text must be one value.
JSONparse(text) ==
    LET r == ParseValue(text, 1)
    IN  IF ~r.ok THEN r
        ELSE IF r.pos <= Len(text) THEN UnexpectedToken(r.pos)
        ELSE r

RECURSIVE JSONstringify(_), StringifyItems(_, _), StringifyMembers(_, _)

\* JSON.stringify(value, null, 2); the indentation is not a token.
JSONstringify(value) ==
    CASE value = JNull -> <<LitTok("null")>>
      [] value.type = "boolean" -> <<LitTok(value.lit)>>
      [] value.type = "number" -> <<NumTok(value.lit)>>
      [] value.type = "string" -> <<StrTok(value.lit)>>
      [] value.type = "array" ->
            <<Punct("[")>> \o StringifyItems(value.items, 1) \o <<Punct("]")>>
      [] value.type = "object" ->
            <<Punct("{")>> \o StringifyMembers(ObjectEntries(value), 1) \o <<Punct("}")>>

StringifyItems(items, i) ==
    IF i > Len(items) THEN <<>>
    ELSE (IF i > 1 THEN <<Punct(",")>> ELSE <<>>)
         \o JSONstringify(items[i]) \o StringifyItems(items, i + 1)

StringifyMembers(entries, i) ==
    IF i > Len(entries) THEN <<>>
    ELSE (IF i > 1 THEN <<Punct(",")>> ELSE <<>>)
         \o <<StrTok(entries[i][1]), Punct(":")>>
         \o JSONstringify(entries[i][2]) \o StringifyMembers(entries, i + 1)

(***************************************************************************)
(* page.tsx: the sample document and what Home renders                     *)
(***************************************************************************)
sampleData ==
    JObj(<<
      <<"fileName", JStr("fromj.json")>>,
      <<"lastSynced", JStr("2024-06-28T22:17:00Z")>>,
      <<"customer", JObj(<<
        <<"id", JStr("CUS-4185")>>,
        <<"name", JStr("Skyline Bistro")>>,
        <<"contact", JObj(<<
          <<"name", JStr("Morgan Patel")>>,
          <<"email", JStr("morgan@skylinebistro.com")>>,
          <<"phone", JStr("+1-415-555-0198")>>>>)>>,
        <<"location", JObj(<<
          <<"address", JStr("201 Market Street")>>,
          <<"city", JStr("San Francisco")>>,
          <<"state", JStr("CA")>>,
          <<"postalCode", JStr("94105")>>>>)>>,
        <<"preferences", JObj(<<
          <<"currency", JStr("USD")>>,
          <<"timezone", JStr("America/Los_Angeles")>>,
          <<"notifications", JArr(<<
            JStr("email"),
            JStr("slack")>>)>>>>)>>>>)>>,
      <<"orders", JArr(<<
        JObj(<<
          <<"orderId", JStr("PO-78421")>>,
          <<"createdAt", JStr("2024-06-27T14:05:00Z")>>,
          <<"status", JStr("packing")>>,
          <<"expectedShipDate", JStr("2024-06-29")>>,
          <<"lineItems", JArr(<<
            JObj(<<
              <<"sku", JStr("HB-12")>>,
              <<"title", JStr("House Blend Beans")>>,
              <<"quantity", JNum("18")>>,
              <<"unitPrice", JNum("12.5")>>,
              <<"unit", JStr("lb")>>>>),
            JObj(<<
              <<"sku", JStr("FM-03")>>,
              <<"title", JStr("French Press 1L")>>,
              <<"quantity", JNum("6")>>,
              <<"unitPrice", JNum("38")>>>>)>>)>>>>),
        JObj(<<
          <<"orderId", JStr("PO-78422")>>,
          <<"createdAt", JStr("2024-06-28T17:42:00Z")>>,
          <<"status", JStr("submitted")>>,
          <<"expectedShipDate", JStr("2024-07-01")>>,
          <<"lineItems", JArr(<<
            JObj(<<
              <<"sku", JStr("SY-01")>>,
              <<"title", JStr("Vanilla Syrup")>>,
              <<"quantity", JNum("12")>>,
              <<"unitPrice", JNum("9.75")>>,
              <<"unit", JStr("bottle")>>>>),
            JObj(<<
              <<"sku", JStr("SY-04")>>,
              <<"title", JStr("Seasonal Maple Syrup")>>,
              <<"quantity", JNum("10")>>,
              <<"unitPrice", JNum("11.25")>>,
              <<"unit", JStr("bottle")>>>>)>>)>>>>)>>)>>,
      <<"integrations", JObj(<<
        <<"quickbooks", JObj(<<
          <<"enabled", JBool("true")>>,
          <<"lastSync", JStr("2024-06-28T12:11:00Z")>>>>)>>,
        <<"squarespace", JObj(<<
          <<"enabled", JBool("false")>>,
          <<"lastSync", JNull>>>>)>>>>)>>,
      <<"tags", JArr(<<
        JStr("priority"),
        JStr("restaurant"),
        JStr("west-coast")>>)>>>>)

sampleText == JSONstringify(sampleData)

RootLabel == "fromj.json"

\* The names of the files the user may pick in the upload dialog.
Files == {"a.json", "b.json"}

\* `Unable to parse JSON: ${err.message}`
ParseErrorMessage(message) ==
    [type |-> "string", lit |-> <<"Unable to parse JSON: ", message>>]

ReadErrorMessage ==
    [type |-> "string", lit |-> <<"Unable to read the selected file.">>]

\* {"b":1,"1":[null]}
TextIndexKey ==
    <<Punct("{"), StrTok("b"), Punct(":"), NumTok("1"), Punct(","), StrTok("1"),
      Punct(":"), Punct("["), LitTok("null"), Punct("]"), Punct("}")>>

\* undefined
TextBareWord == <<BadTok("undefined")>>

\* The texts a user types or a file holds: two the decoder accepts and one
\* it rejects.
Texts == {sampleText, TextIndexKey, TextBareWord}

\* JSON.parse of each of these texts, worked out once.
Decoded == [text \in Texts |-> JSONparse(text)]

\* JSON.parse(text), looked up when the text is one of these.
JSONparseText(text) == IF text \in Texts THEN Decoded[text] ELSE JSONparse(text)

\* The documents these texts hold.
Documents == {Decoded[text].value : text \in {t \in Texts : Decoded[t].ok}}

\* buildStats(value) and what <JsonTree value={value}/> renders for each of
\* these documents, worked out once, and looked up when the value is one.
DocumentStats == [value \in Documents |-> buildStats(value, 0)]
DocumentTree == [value \in Documents |-> JsonTree(value, RootLabel)]

buildStatsOf(value) ==
    IF value \in Documents THEN DocumentStats[value] ELSE buildStats(value, 0)

JsonTreeOf(value) ==
    IF value \in Documents THEN DocumentTree[value] ELSE JsonTree(value, RootLabel)

\* Mutant of UseMemoStats: an empty dependency list, never recomputed.
UseMemoStatsNoDeps(newData) == stats

\* useMemo(() => buildStats(data), [data]): recomputed when data is not
\* the data of the previous render.
UseMemoStats(newData) ==
    IF newData # rendered.data THEN buildStatsOf(newData) ELSE stats

\* The values the hooks hold.
HookState ==
    [jsonText |-> jsonText, data |-> data, activeLabel |-> activeLabel,
     error |-> error, updatedAt |-> updatedAt]

\* One render of Home: it runs with the values the hooks hold after every
\* setter call made so far, and gives the stats panel and the tree.
Render ==
    /\ rendered' = HookState'
    /\ stats' = UseMemoStats(data')
    /\ tree' = JsonTreeOf(data')

(***************************************************************************)
(* The documents the traversal is checked on.  A document is grown from a  *)
(* seed one step at a time, up to MaxNodes nodes.                          *)
(***************************************************************************)
MaxNodes == 5

\* {"a":[1,2,{"b":3}]}
ExampleDoc ==
    JObj(<< <<"a", JArr(<<JNum("1"), JNum("2"),
                         JObj(<< <<"b", JNum("3")>> >>)>>)>> >>)

Seeds ==
    {JNull, JBool("true"), JBool("false"), JNum("1"), JStr("s"),
     JArr(<<>>), JObj(<<>>), ExampleDoc}

\* The values placed beside the growing spine.
Leaves == {JNull, JNum("1"), JArr(<<>>), JObj(<<>>)}

Keys == {"a", "9", "10"}

\* The children of a value as the document lists them: the items of an
\* array by index, the members of an object in the order they were written.
DocChildren(value) ==
    IF value.type = "array" THEN value.items
    ELSE IF value.type = "object"
         THEN [i \in 1..Len(value.props) |-> value.props[i][2]]
    ELSE <<>>

\* Every node of a value, addressed by the child positions leading to it.
RECURSIVE Paths(_)
Paths(value) ==
    {<<>>} \cup
    UNION {{<<i>> \o p : p \in Paths(DocChildren(value)[i])} :
              i \in 1..Len(DocChildren(value))}

RECURSIVE At(_, _)
At(value, path) ==
    IF path = <<>> THEN value ELSE At(DocChildren(value)[Head(path)], Tail(path))

Size(value) == Cardinality(Paths(value))

InsertAt(items, i, value) ==
    SubSeq(items, 1, i - 1) \o <<value>> \o SubSeq(items, i, Len(items))

\* What the page shows for a document: useMemo(buildStats(data)) and
\* <JsonTree value={data} rootLabel="fromj.json" />.
Show(value) ==
    /\ data' = value
    /\ UNCHANGED <<jsonText, activeLabel, error, updatedAt, readers>>
    /\ Render

WrapInArray ==
    /\ Size(data) < MaxNodes
    /\ Show(JArr(<<data>>))

WrapInObject ==
    /\ Size(data) < MaxNodes
    /\ \E k \in Keys : Show(JObj(<< <<k, data>> >>))

InsertItem ==
    /\ Size(data) < MaxNodes
    /\ data.type = "array"
    /\ \E i \in 1..(Len(data.items) + 1), leaf \in Leaves :
          Show(JArr(InsertAt(data.items, i, leaf)))

SetProperty ==
    /\ Size(data) < MaxNodes
    /\ data.type = "object"
    /\ \E k \in Keys, leaf \in Leaves :
          Show(JObj(DefineProperty(data.props, k, leaf)))

InitBuild ==
    /\ data \in Seeds
    /\ stats = buildStats(data, 0)
    /\ tree = JsonTree(data, RootLabel)
    /\ jsonText = <<>>
    /\ activeLabel = "Sample dataset"
    /\ error = JNull
    /\ updatedAt = 0
    /\ rendered = HookState
    /\ readers = [f \in Files |-> 0]

NextBuild == WrapInArray \/ WrapInObject \/ InsertItem \/ SetProperty

SpecBuild == InitBuild /\ [][NextBuild]_vars

(***************************************************************************)
(* Properties of the traversal, checked under SpecBuild.                   *)
(***************************************************************************)
\* Every element of a rendered tree, addressed as the document's nodes are.
RECURSIVE TreePaths(_)
TreePaths(node) ==
    {<<>>} \cup
    UNION {{<<i>> \o p : p \in TreePaths(node.children[i])} :
              i \in 1..Len(node.children)}

RECURSIVE TreeAt(_, _)
TreeAt(node, path) ==
    IF path = <<>> THEN node ELSE TreeAt(node.children[Head(path)], Tail(path))

IsPrimitiveType(value) == value.type \in {"null", "boolean", "number", "string"}

CountType(value, types) ==
    Cardinality({p \in Paths(value) : At(value, p).type \in types})

CountKind(node, kind) ==
    Cardinality({p \in TreePaths(node) : TreeAt(node, p).kind = kind})

\* C1: the stats of the displayed document satisfy
\* nodeCount = objectCount + arrayCount + primitiveCount.
NodeCountIsSumOfKinds ==
    stats.nodeCount = stats.objectCount + stats.arrayCount + stats.primitiveCount

\* A grown document with nodes of all three kinds.
NodeCountWitness ==
    /\ data # ExampleDoc
    /\ stats.objectCount >= 2
    /\ stats.arrayCount >= 1
    /\ stats.primitiveCount >= 2

\* C2: maxDepth is the greatest depth of any node of the document, the root
\* being at depth 0 and empty containers counting at their own depth.
MaxDepthIsGreatestDepth ==
    /\ \E p \in Paths(data) : Len(p) = stats.maxDepth
    /\ \A p \in Paths(data) : Len(p) <= stats.maxDepth

\* The deepest node is an empty container and a later sibling of its
\* ancestor is shallower.
MaxDepthWitness ==
    /\ stats.maxDepth >= 2
    /\ \E p \in Paths(data) :
          /\ Len(p) = stats.maxDepth
          /\ At(data, p) \in {JArr(<<>>), JObj(<<>>)}
          /\ p[1] < Len(DocChildren(data))
    /\ \A p \in Paths(data) : Len(p) = stats.maxDepth => p[1] = 1

\* Every node is counted once under its own kind (null as a primitive), and
\* a childless root gives 1 node, depth 0 and 1 of its own kind only.
CountsMatchDocument ==
    /\ stats.nodeCount = Cardinality(Paths(data))
    /\ stats.objectCount = CountType(data, {"object"})
    /\ stats.arrayCount = CountType(data, {"array"})
    /\ stats.primitiveCount = CountType(data, {"null", "boolean", "number", "string"})
    /\ DocChildren(data) = <<>> =>
          /\ stats.nodeCount = 1
          /\ stats.maxDepth = 0
          /\ stats.objectCount = (IF data.type = "object" THEN 1 ELSE 0)
          /\ stats.arrayCount = (IF data.type = "array" THEN 1 ELSE 0)
          /\ stats.primitiveCount = (IF IsPrimitiveType(data) THEN 1 ELSE 0)

\* C3 as stated: the counts match the document, and the example document
\* {"a":[1,2,{"b":3}]} gives 6 nodes, 2 objects, 1 array, 3 primitives and
\* maxDepth 2.
EachNodeCountedOnceExampleDepthTwo ==
    /\ CountsMatchDocument
    /\ data = ExampleDoc =>
          stats = [nodeCount |-> 6, objectCount |-> 2, arrayCount |-> 1,
                   primitiveCount |-> 3, maxDepth |-> 2]

\* C3 as amended: the counts match the document, and the example document
\* gives 6 nodes, 2 objects, 1 array, 3 primitives and maxDepth 3 (the 3
\* under "b" lies three levels below the root).
EachNodeCountedOnceByKind ==
    /\ CountsMatchDocument
    /\ data = ExampleDoc =>
          stats = [nodeCount |-> 6, objectCount |-> 2, arrayCount |-> 1,
                   primitiveCount |-> 3, maxDepth |-> 3]

\* The example document is displayed with its six nodes counted.
CountedByKindWitness ==
    data = ExampleDoc /\ stats.nodeCount = 6

\* A null below the root, beside an object and an array.
ClassifiersAgreeWitness ==
    /\ \E p \in Paths(data) : Len(p) >= 2 /\ At(data, p) = JNull
    /\ \E p \in Paths(data) : Len(p) >= 1 /\ At(data, p).type = "object"
    /\ \E p \in Paths(data) : Len(p) >= 1 /\ At(data, p).type = "array"

\* C6: the root element has depth 0, every child element has its parent's
\* depth + 1, and a container is open exactly when its depth is below 2.
DepthAndDefaultOpen ==
    /\ tree.depth = 0
    /\ \A p \in TreePaths(tree) :
          LET node == TreeAt(tree, p)
          IN  /\ \A i \in 1..Len(node.children) :
                    node.children[i].depth = node.depth + 1
              /\ node.kind \in {"Object", "Array"} => (node.open <=> node.depth < 2)

\* A container at depth 2, closed, with a child at depth 3.
DefaultOpenWitness ==
    \E p \in TreePaths(tree) :
        /\ data # ExampleDoc
        /\ Len(p) = 2
        /\ TreeAt(tree, p).kind \in {"Object", "Array"}
        /\ ~TreeAt(tree, p).open
        /\ Len(TreeAt(tree, p).children) >= 1
        /\ TreeAt(tree, p).children[1].depth = 3

\* The kind JsonNode is to render a value as.
KindOf(value) ==
    CASE value.type = "object" -> "Object"
      [] value.type = "array" -> "Array"
      [] OTHER -> "Primitive"

\* The text a primitive is to be shown as: a string between double quotes,
\* a number or a boolean as written, null as the word null.
ShownText(value) ==
    CASE value.type = "null" -> "null"
      [] value.type = "string" -> "\"" \o value.lit \o "\""
      [] OTHER -> value.lit

\* The element shows the value: the same kind and, for a primitive, its text.
Renders(node, value) ==
    /\ node.kind = KindOf(value)
    /\ IsPrimitiveType(value) => node.shown[2] = ShownText(value)

\* C7: the children of every rendered container are the container's children
\* in the document's order, none dropped, duplicated or reordered: child i of
\* an array is element i labelled "[i]", the children of an object are its
\* members in original key order, each labelled with its key.
ChildrenInDocumentOrder ==
    /\ TreePaths(tree) = Paths(data)
    /\ \A p \in Paths(data) \cap TreePaths(tree) :
          LET value == At(data, p)
              node == TreeAt(tree, p)
          IN  /\ Len(node.children) = Len(DocChildren(value))
              /\ value.type = "array" =>
                    \A i \in 1..Len(value.items) :
                        /\ node.children[i].name = "[" \o ToString(i - 1) \o "]"
                        /\ Renders(node.children[i], value.items[i])
              /\ value.type = "object" =>
                    \A i \in 1..Len(value.props) :
                        /\ node.children[i].name = value.props[i][1]
                        /\ Renders(node.children[i], value.props[i][2])

\* C8: the tree pass and the stats pass agree: the elements rendered as
\* Object, Array and primitive number objectCount, arrayCount and
\* primitiveCount, all elements nodeCount, and the greatest depth passed to
\* JsonNode is maxDepth.
TreeAgreesWithStats ==
    /\ CountKind(tree, "Object") = stats.objectCount
    /\ CountKind(tree, "Array") = stats.arrayCount
    /\ CountKind(tree, "Primitive") = stats.primitiveCount
    /\ Cardinality(TreePaths(tree)) = stats.nodeCount
    /\ \E p \in TreePaths(tree) : TreeAt(tree, p).depth = stats.maxDepth
    /\ \A p \in TreePaths(tree) : TreeAt(tree, p).depth <= stats.maxDepth

\* C9: the root is rendered with isLast, and a child is rendered with isLast
\* exactly when it is the final child of its parent, so a container with
\* children has exactly one isLast child.
IsLastMarksFinalSibling ==
    /\ tree.isLast
    /\ \A p \in TreePaths(tree) :
          LET kids == TreeAt(tree, p).children
          IN  /\ \A i \in 1..Len(kids) : kids[i].isLast <=> (i = Len(kids))
              /\ Len(kids) >= 1 =>
                    Cardinality({i \in 1..Len(kids) : kids[i].isLast}) = 1

\* A container below the root with three children, the last one marked.
IsLastWitness ==
    \E p \in TreePaths(tree) :
        /\ data # ExampleDoc
        /\ Len(p) >= 1
        /\ Len(TreeAt(tree, p).children) = 3
        /\ TreeAt(tree, p).children[3].isLast
        /\ ~TreeAt(tree, p).children[2].isLast

(***************************************************************************)
(* Home (page.tsx:164-213): the page's state and its event handlers.       *)
(***************************************************************************)
MaxTime == 1
MaxReaders == 2

\* The number of FileReaders in flight.
RECURSIVE InFlightOf(_)
InFlightOf(files) ==
    IF files = {} THEN 0
    ELSE LET f == CHOOSE g \in files : TRUE
         IN  readers[f] + InFlightOf(files \ {f})

InFlight == InFlightOf(Files)

\* new Date(): what the wall clock reads at the call.  The clock may have
\* been set back since the time displayed, so any reading is possible.
NewDate == 0..MaxTime

\* Mutant of parseAndLoad: the catch block also clears the document.
parseAndLoadClearsOnError(text, label) ==
    LET parsed == JSONparseText(text)
    IN  IF parsed.ok
        THEN /\ data' = parsed.value
             /\ activeLabel' = label
             /\ error' = JNull
             /\ updatedAt' \in NewDate
        ELSE /\ error' = ParseErrorMessage(parsed.message)
             /\ data' = JNull
             /\ UNCHANGED <<activeLabel, updatedAt>>

\* Mutant of parseAndLoad: the try block does not clear the error.
parseAndLoadKeepsError(text, label) ==
    LET parsed == JSONparseText(text)
    IN  IF parsed.ok
        THEN /\ data' = parsed.value
             /\ activeLabel' = label
             /\ UNCHANGED error
             /\ updatedAt' \in NewDate
        ELSE /\ error' = ParseErrorMessage(parsed.message)
             /\ UNCHANGED <<data, activeLabel, updatedAt>>

\* parseAndLoad (173-187): the four state setters of the try block, or
\* setError alone in the catch block.
parseAndLoad(text, label) ==
    LET parsed == JSONparseText(text)
    IN  IF parsed.ok
        THEN /\ data' = parsed.value
             /\ activeLabel' = label
             /\ error' = JNull
             /\ updatedAt' \in NewDate
        ELSE /\ error' = ParseErrorMessage(parsed.message)
             /\ UNCHANGED <<data, activeLabel, updatedAt>>

\* The handlers of the text area and of the buttons run in a click or input
\* event, and the page is rendered again before the event is over: with the
\* setter calls of the handler and with those a FileReader callback made
\* earlier and that are not rendered yet.

\* <textarea onChange={(event) => setJsonText(event.target.value)}> (275)
SetJsonText ==
    /\ UNCHANGED <<data, activeLabel, error, updatedAt, readers>>
    /\ \E text \in Texts : jsonText' = text
    /\ Render

\* handleTextParse (208): the handler of the last render, which parses the
\* jsonText of that render.
HandleTextParse ==
    /\ UNCHANGED <<jsonText, readers>>
    /\ parseAndLoad(rendered.jsonText, "Manual input")
    /\ Render

\* handleUseSample (210-213)
HandleUseSample ==
    /\ jsonText' = sampleText
    /\ UNCHANGED readers
    /\ parseAndLoad(sampleText, "Sample dataset")
    /\ Render

\* handleFileUpload (189-206): without a file it returns; with one it starts
\* a FileReader whose onload or onerror runs later.  It calls no setter.
HandleFileUpload ==
    \E files \in {<<>>} \cup {<<f>> : f \in Files} :
        IF files = <<>>
        THEN UNCHANGED vars
        ELSE /\ InFlight < MaxReaders
             /\ readers' = [readers EXCEPT ![files[1]] = @ + 1]
             /\ UNCHANGED <<jsonText, data, activeLabel, error, updatedAt,
                            rendered, stats, tree>>

\* A FileReader callback runs in a task of its own.  Its setter calls
\* schedule a render for a later task, and other handlers can run first.

\* reader.onload (195-199), for any reader in flight and whatever the file holds.
ReaderOnload ==
    \E file \in Files, text \in Texts :
        /\ readers[file] > 0
        /\ readers' = [readers EXCEPT ![file] = @ - 1]
        /\ UNCHANGED <<rendered, stats, tree>>
        /\ jsonText' = text
        /\ parseAndLoad(text, file)

\* reader.onerror (201-203)
ReaderOnerror ==
    \E file \in Files :
        /\ readers[file] > 0
        /\ readers' = [readers EXCEPT ![file] = @ - 1]
        /\ error' = ReadErrorMessage
        /\ UNCHANGED <<jsonText, data, activeLabel, updatedAt, rendered, stats, tree>>

\* The render the setter calls of FileReader callbacks scheduled.
ScheduledRender ==
    /\ rendered # HookState
    /\ UNCHANGED <<jsonText, data, activeLabel, error, updatedAt, readers>>
    /\ Render

\* The useState initialisers (165-169) and the first render.
Init ==
    /\ jsonText = sampleText
    /\ data = sampleData
    /\ activeLabel = "Sample dataset"
    /\ error = JNull
    /\ updatedAt \in NewDate
    /\ rendered = HookState
    /\ stats = buildStats(sampleData, 0)
    /\ tree = JsonTree(sampleData, RootLabel)
    /\ readers = [f \in Files |-> 0]

Next ==
    \/ SetJsonText
    \/ HandleTextParse
    \/ HandleUseSample
    \/ HandleFileUpload
    \/ ReaderOnload
    \/ ReaderOnerror
    \/ ScheduledRender

Spec == Init /\ [][Next]_vars

(***************************************************************************)
(* Properties of the page, checked under Spec.                             *)
(***************************************************************************)
Rejected(text) == ~Decoded[text].ok

\* A render is due: a FileReader callback has called setters since the last.
RenderPending == rendered # HookState

\* What C4 says of a call parseAndLoad(text, label) the decoder rejects.
OnlyErrorSet(text) ==
    Rejected(text) =>
        /\ UNCHANGED <<data, activeLabel, updatedAt>>
        /\ error' # JNull
        /\ error' = ParseErrorMessage(Decoded[text].message)

\* The page displays the document, the label and the time it displayed.
DisplayKept ==
    /\ UNCHANGED <<stats, tree>>
    /\ rendered'.data = rendered.data
    /\ rendered'.activeLabel = rendered.activeLabel
    /\ rendered'.updatedAt = rendered.updatedAt

StatsAndTreeOfData ==
    /\ stats = buildStats(rendered.data, 0)
    /\ tree = JsonTree(rendered.data, RootLabel)

\* A load of a text that parses sets data to what it parses to.
LoadsParsed(text) == ~Rejected(text) => data' = Decoded[text].value

\* The step is a handler's call of parseAndLoad with a text that parses.
SuccessfulLoad ==
    \/ HandleTextParse /\ ~Rejected(rendered.jsonText)
    \/ HandleUseSample /\ ~Rejected(sampleText)
    \/ ReaderOnload /\ ~Rejected(jsonText')

ErrorShowsOutcome(text) == error' = JNull <=> ~Rejected(text)

\* C10: error reflects the most recently completed load attempt: a load that
\* parses clears it, a load that fails to parse or a file that cannot be
\* read sets a message, and no other step changes it; editing the text area
\* changes none of error, data and activeLabel.  The page displays error as
\* of its last render.
ErrorReflectsLastAttempt ==
    [][/\ HandleTextParse => ErrorShowsOutcome(rendered.jsonText)
       /\ HandleUseSample => ErrorShowsOutcome(sampleText)
       /\ ReaderOnload => ErrorShowsOutcome(jsonText')
       /\ ReaderOnerror => error' = ReadErrorMessage /\ error' # JNull
       /\ SetJsonText => UNCHANGED <<error, data, activeLabel>>
       /\ error' # error =>
             HandleTextParse \/ HandleUseSample \/ ReaderOnload \/ ReaderOnerror
       /\ rendered'.error # rendered.error => rendered'.error = error']_vars

\* A file whose text the decoder rejects was read, and before the page was
\* rendered Parse JSON was clicked: the click parsed the text of the last
\* render, which parses, so error is null beside the rejected text.
ErrorWitness ==
    /\ error = JNull
    /\ rendered.error = JNull
    /\ activeLabel = "Manual input"
    /\ jsonText = TextBareWord
    /\ rendered.jsonText = TextBareWord
    /\ data = sampleData
    /\ updatedAt > 0

====
